---- MODULE Spec2Model ----
(***************************************************************************)
(* Reader-facing controllers of Oppia (core/controllers/reader.py) and the *)
(* editor prerequisites form (exercised by core/controllers/               *)
(* profile_test.py).                                                       *)
(*                                                                         *)
(* HTML fragments and feedback strings are sequences of tokens: the empty  *)
(* string is <<>>, concatenation is \o, and "<br>" is one token.  A        *)
(* parameter mapping (a Python dict) is a function from keys to values;    *)
(* the empty dict is the function with the empty domain.                   *)
(***************************************************************************)
EXTENDS Integers, Sequences, FiniteSets, TLC

VARIABLES
    store,      \* exploration store: exploration id -> exploration
    public,     \* rights: the ids of the published explorations
    usernames,  \* user settings: user id -> registered username (<<>> if none)
    last,       \* the request being served, with the response it gets, until
                \* the response is delivered
    events,     \* the events that request appended to the stats log
    client,     \* per reader: the session the client carries and echoes back
    resp,       \* per reader: the response to the reader's last request
    alone,      \* per reader: the store as it would be had only this reader's
                \* requests been served
    expected,   \* per reader: the response the last request gets against alone
    few_public_redirect, \* a redirect was served with fewer than two public
                         \* explorations
    session_log \* per reader, since the session's init: the number of finished
                \* responses, and whether a transition posted from the end
                \* sentinel got a response or recorded an event

vars == <<store, public, usernames, last, events, client, resp, alone,
          expected, few_public_redirect, session_log>>

-----------------------------------------------------------------------------
(* Bounds of the model. *)

\* Largest block_number a request carries.
MaxBlock == 2

\* Longest state_history a request carries.
MaxHist == 2

-----------------------------------------------------------------------------
(* Plain data. *)

END_DEST == "END"

BR == "<br>"

Readers == {"r1", "r2"}

\* "anonymous" is the logged-out requester (user_id None).
UserIds == {"anonymous", "person", "another", "editor", "admin"}

Admins == {"admin"}

ExpIds == {"0", "1", "eid", "eid2"}

StateNames == {"Intro", "Quiz", "Quiz2"}

Answers == {"a1", "a2"}

ParamKeys == {"answer", "name"}

EmptyParams == [k \in {} |-> ""]

Widget(widget_id, sticky, customization_args) ==
    [widget_id |-> widget_id, sticky |-> sticky,
     customization_args |-> customization_args]

Rule(desc, dest, feedback) == [desc |-> desc, dest |-> dest, feedback |-> feedback]

State(content, widget, param_changes, rules) ==
    [content |-> content, widget |-> widget, param_changes |-> param_changes,
     rules |-> rules]

\* Exploration "0": the welcome exploration.  Intro loops on a wrong answer
\* (two-line feedback), Quiz and Quiz2 share a sticky widget, Quiz has no
\* content, Quiz2 shows the reader's answer after feedback.
Welcome ==
    [title |-> "Welcome to Oppia!",
     init_state_name |-> "Intro",
     param_defaults |-> EmptyParams,
     editors |-> {},
     states |->
        ("Intro" :> State(<<"hello">>,
                          Widget("TextInput", FALSE, <<"placeholder">>),
                          EmptyParams,
                          ("a1" :> Rule("r1", "Quiz", <<"yes">>)) @@
                          ("a2" :> Rule("r2", "Intro", <<"try", "again">>)))) @@
        ("Quiz" :> State(<<>>,
                         Widget("MultiField", TRUE, <<"name">>),
                         [name |-> "n1"],
                         ("a1" :> Rule("r1", "Quiz2", <<"good">>)) @@
                         ("a2" :> Rule("r2", END_DEST, <<"bye">>)))) @@
        ("Quiz2" :> State(<<"more", "answer">>,
                          Widget("MultiField", TRUE, <<>>),
                          EmptyParams,
                          ("a1" :> Rule("r1", END_DEST, <<>>)) @@
                          ("a2" :> Rule("r2", "Intro", <<>>))))]

\* Exploration "1" as load_demo('1') creates it.
Demo1 ==
    [title |-> "Demo",
     init_state_name |-> "Intro",
     param_defaults |-> [name |-> "n0"],
     editors |-> {},
     states |->
        ("Intro" :> State(<<"demo", "name">>,
                          Widget("Continue", FALSE, <<>>),
                          EmptyParams,
                          ("a1" :> Rule("r1", END_DEST, <<"done">>)) @@
                          ("a2" :> Rule("r2", "Intro", <<>>))))]

\* Exploration "1" after an editor changed it.
Edited1 ==
    [title |-> "Edited",
     init_state_name |-> "Quiz",
     param_defaults |-> EmptyParams,
     editors |-> {},
     states |->
        ("Quiz" :> State(<<"edited">>,
                         Widget("TextInput", TRUE, <<>>),
                         EmptyParams,
                         ("a1" :> Rule("r1", "Quiz", <<"again">>)) @@
                         ("a2" :> Rule("r2", "Intro", <<>>)))) @@
        ("Intro" :> State(<<>>,
                          Widget("TextInput", TRUE, <<>>),
                          EmptyParams,
                          ("a1" :> Rule("r1", END_DEST, <<>>)) @@
                          ("a2" :> Rule("r2", "Quiz", <<>>))))]

\* exp_services.create_new(owner, 'A title', 'A category', id): one state,
\* whose default rule leads to END or back to the state itself.
NewExploration(owner, default_dest_is_end_state) ==
    LET dest == IF default_dest_is_end_state THEN END_DEST ELSE "Intro" IN
    [title |-> "A title",
     init_state_name |-> "Intro",
     param_defaults |-> EmptyParams,
     editors |-> {owner},
     states |->
        ("Intro" :> State(<<>>,
                          Widget("Continue", FALSE, <<>>),
                          EmptyParams,
                          ("a1" :> Rule("Default", dest, <<>>)) @@
                          ("a2" :> Rule("Default", dest, <<>>))))]

-----------------------------------------------------------------------------
(* Domain services the controllers call. *)

\* exp_services.get_exploration_by_id raises unless the id resolves.
Resolves(st, exploration_id) == exploration_id \in DOMAIN st

\* rights_manager.Actor(user_id).can_view(exploration_id)
can_view(st, pub, user_id, exploration_id) ==
    \/ exploration_id \in pub
    \/ user_id \in Admins
    \/ user_id \in st[exploration_id].editors

\* rights_manager.is_exploration_public
is_exploration_public(pub, exploration_id) == exploration_id \in pub

\* dict.update: the keys of q override those of p.
Merge(p, q) ==
    [k \in DOMAIN p \cup DOMAIN q |-> IF k \in DOMAIN q THEN q[k] ELSE p[k]]

\* exp_services.get_init_params
get_init_params(st, exploration_id) == st[exploration_id].param_defaults

\* exp_services.update_with_state_params
update_with_state_params(st, exploration_id, state_name, reader_params) ==
    Merge(reader_params, st[exploration_id].states[state_name].param_changes)

\* One token of a content block: a parameter reference renders as the
\* parameter's value (nothing when the parameter is unset).
RenderToken(tok, params) ==
    IF tok \in ParamKeys
    THEN (IF tok \in DOMAIN params THEN <<params[tok]>> ELSE <<>>)
    ELSE <<tok>>

RECURSIVE export_content_to_html(_, _)
\* exp_services.export_content_to_html
export_content_to_html(content, params) ==
    IF content = <<>> THEN <<>>
    ELSE RenderToken(Head(content), params)
            \o export_content_to_html(Tail(content), params)

RECURSIVE JoinBr(_)
\* '<br>'.join(feedback.split('\n')): the feedback string is its lines.
JoinBr(lines) ==
    IF Len(lines) <= 1 THEN lines
    ELSE <<Head(lines), BR>> \o JoinBr(Tail(lines))

\* widget.get_raw_code(customization_args, params)
get_raw_code(widget, params) ==
    <<widget.widget_id>> \o export_content_to_html(widget.customization_args, params)

\* widget.get_reader_response_html(customization_args, params, answer)
get_reader_response_html(widget, params, answer) ==
    [html |-> <<"You answered", answer>>, iframe |-> <<>>]

\* widget.get_stats_log_html(customization_args, params, answer)
get_stats_log_html(widget, params, answer) == <<answer>>

\* exp_services.classify
classify(st, exploration_id, state_name, handler, answer, params) ==
    st[exploration_id].states[state_name].rules[answer]

\* stats_services.EventHandler.record_state_hit
record_state_hit(exploration_id, state_name, first_time) ==
    [type |-> "state_hit", exploration_id |-> exploration_id,
     state_name |-> state_name, first_time |-> first_time]

\* stats_services.EventHandler.record_answer_submitted
record_answer_submitted(exploration_id, state_name, handler, rule, answer) ==
    [type |-> "answer_submitted", exploration_id |-> exploration_id,
     state_name |-> state_name, handler |-> handler, rule |-> rule,
     answer |-> answer]

\* stats_services.EventHandler.record_state_feedback_from_reader
record_state_feedback_from_reader(exploration_id, state_name, feedback, history) ==
    [type |-> "state_feedback", exploration_id |-> exploration_id,
     state_name |-> state_name, feedback |-> feedback,
     state_history |-> history]

\* exp_services.get_public_explorations, in the store's id order.
get_public_explorations(pub) ==
    SelectSeq(<<"0", "1", "eid", "eid2">>, LAMBDA e : e \in pub)

-----------------------------------------------------------------------------
(* Responses. *)

PageNotFound == [status |-> 404, values |-> <<>>, events |-> <<>>]

\* The lookup failure caught and turned into a NotFound, as the init
\* handler does.
ServerError_as_not_found == [status |-> 404, values |-> <<>>, events |-> <<>>]

\* An exception no handler catches.
ServerError == [status |-> 500, values |-> <<>>, events |-> <<>>]

-----------------------------------------------------------------------------
(* ExplorationPage.get: GET /learn/<exploration_id> *)

\* The page without the permission check.
ExplorationPage_get_unchecked(st, pub, user_id, exploration_id, iframed) ==
    IF ~Resolves(st, exploration_id) THEN PageNotFound
    ELSE [status |-> 200,
          values |-> [content |-> <<"skin">>,
                      iframed |-> iframed,
                      is_public |-> is_exploration_public(pub, exploration_id)],
          events |-> <<>>]

ExplorationPage_get(st, pub, user_id, exploration_id, iframed) ==
    IF ~Resolves(st, exploration_id) THEN PageNotFound
    ELSE IF ~can_view(st, pub, user_id, exploration_id) THEN PageNotFound
    ELSE [status |-> 200,
          values |-> [content |-> <<"skin">>,
                      iframed |-> iframed,
                      is_public |-> is_exploration_public(pub, exploration_id)],
          events |-> <<>>]

-----------------------------------------------------------------------------
(* RandomExplorationPage.get: GET /random *)

\* The reset taken with two public explorations as well.
NeedsDemoReset_le2(explorations) == Len(explorations) <= 2

\* len(explorations) <= 1
NeedsDemoReset(explorations) == Len(explorations) <= 1

\* exp_services.delete_demo('1'); exp_services.load_demo('1')
ReloadDemo(st) ==
    [e \in DOMAIN st \cup {"1"} |-> IF e = "1" THEN Demo1 ELSE st[e]]

\* The store and the rights after the handler ran.
RandomStore(st, pub) ==
    IF NeedsDemoReset(get_public_explorations(pub)) THEN ReloadDemo(st) ELSE st

RandomPublic(st, pub) ==
    IF NeedsDemoReset(get_public_explorations(pub)) THEN pub \cup {"1"} ELSE pub

\* The ids the handler may select: '1' after a reset, else any of
\* explorations[1:].
RandomSelection(pub) ==
    LET explorations == get_public_explorations(pub) IN
    IF NeedsDemoReset(explorations) THEN {"1"}
    ELSE {explorations[i] : i \in 2..Len(explorations)}

RandomExplorationPage_get(selected_exploration_id, iframed) ==
    [status |-> 302,
     values |-> [dest_url |-> <<"/learn/", selected_exploration_id>>
                                \o (IF iframed THEN <<"?iframed=true">> ELSE <<>>)],
     events |-> <<>>]

-----------------------------------------------------------------------------
(* ExplorationHandler.get: GET /learnhandler/init/<exploration_id> *)

ExplorationHandler_get(st, exploration_id) ==
    IF ~Resolves(st, exploration_id) THEN PageNotFound
    ELSE
      LET exploration == st[exploration_id]
          init_params == get_init_params(st, exploration_id)
          reader_params == update_with_state_params(
              st, exploration_id, exploration.init_state_name, init_params)
          init_state == exploration.states[exploration.init_state_name]
          init_html == export_content_to_html(init_state.content, reader_params)
          interactive_html == get_raw_code(init_state.widget, reader_params)
      IN [status |-> 200,
          values |-> [block_number |-> 0,
                      interactive_html |-> interactive_html,
                      oppia_html |-> init_html,
                      params |-> reader_params,
                      state_history |-> <<exploration.init_state_name>>,
                      state_name |-> exploration.init_state_name,
                      title |-> exploration.title],
          events |-> <<record_state_hit(
              exploration_id, exploration.init_state_name, TRUE)>>]

-----------------------------------------------------------------------------
(* FeedbackHandler.post:                                                   *)
(* POST /learnhandler/transition/<exploration_id>/<state_name>             *)

\* FeedbackHandler._get_feedback
get_feedback(feedback, params) ==
    IF feedback = <<>> THEN <<>>
    ELSE export_content_to_html(JoinBr(feedback), params)

\* old_params = self.payload.get('params', {}); old_params['answer'] = answer
WithAnswer(params, answer) == Merge(params, [answer |-> answer])

\* The block number left as it was sent.
NextBlockNumber_same(block_number) == block_number

\* block_number = self.payload.get('block_number') + 1
NextBlockNumber(block_number) == block_number + 1

\* A history that records each state once.
AppendHistory_dedup(state_history, new_state_name) ==
    IF \E i \in 1..Len(state_history) : state_history[i] = new_state_name
    THEN state_history
    ELSE Append(state_history, new_state_name)

\* state_history.append(new_state_name)
AppendHistory(state_history, new_state_name) ==
    Append(state_history, new_state_name)

\* The membership test made after the destination was appended.
IsFirstVisit_after_append(state_history, new_state_name) ==
    ~(\E i \in 1..Len(Append(state_history, new_state_name)) :
        Append(state_history, new_state_name)[i] = new_state_name)

\* (new_state_name not in state_history)
IsFirstVisit(state_history, new_state_name) ==
    ~(\E i \in 1..Len(state_history) : state_history[i] = new_state_name)

\* Sticky without the comparison of the widget ids.
Sticky_any_widget(exploration, old_state, new_state_name) ==
    /\ new_state_name # END_DEST
    /\ exploration.states[new_state_name].widget.sticky

\* sticky = (new_state_name != END_DEST and new_state.widget.sticky and
\*           new_state.widget.widget_id == old_state.widget.widget_id)
Sticky(exploration, old_state, new_state_name) ==
    /\ new_state_name # END_DEST
    /\ exploration.states[new_state_name].widget.sticky
    /\ exploration.states[new_state_name].widget.widget_id
          = old_state.widget.widget_id

\* The separator put in whatever the two fragments are.
Separator_always(html_output, state_html) == <<BR>>

\* if html_output and state_html: html_output += '<br>'
Separator(html_output, state_html) ==
    IF html_output # <<>> /\ state_html # <<>> THEN <<BR>> ELSE <<>>

\* FeedbackHandler._append_content, the branch of a session that goes on.
append_content_else(st, exploration_id, sticky, old_params, new_state_name, state_has_changed, html_output) ==
    LET new_state == st[exploration_id].states[new_state_name]
        new_params == update_with_state_params(
            st, exploration_id, new_state_name, old_params)
        state_html == export_content_to_html(new_state.content, new_params)
    IN [new_params |-> new_params,
        html_output |->
            IF state_has_changed
            THEN html_output \o Separator(html_output, state_html) \o state_html
            ELSE html_output,
        interactive_html |-> IF sticky THEN <<>>
                             ELSE get_raw_code(new_state.widget, new_params)]

\* _append_content that hands the reader's parameters back when finished.
append_content_keeps_params(st, exploration_id, sticky, finished, old_params, new_state_name, state_has_changed, html_output) ==
    IF finished
    THEN [new_params |-> old_params, html_output |-> html_output,
          interactive_html |-> <<>>]
    ELSE append_content_else(st, exploration_id, sticky, old_params,
                             new_state_name, state_has_changed, html_output)

\* FeedbackHandler._append_content
append_content(st, exploration_id, sticky, finished, old_params, new_state_name, state_has_changed, html_output) ==
    IF finished
    THEN [new_params |-> EmptyParams, html_output |-> html_output,
          interactive_html |-> <<>>]
    ELSE append_content_else(st, exploration_id, sticky, old_params,
                             new_state_name, state_has_changed, html_output)

\* The state name the reader came from handed back when the session ends.
ReturnedStateName_old_at_end(old_state_name, new_state_name) ==
    IF new_state_name = END_DEST THEN old_state_name ELSE new_state_name

\* 'state_name': new_state_name
ReturnedStateName(old_state_name, new_state_name) == new_state_name

\* payload: [answer, handler, block_number, params, state_history]
FeedbackHandler_post(st, exploration_id, old_state_name, payload) ==
    IF ~Resolves(st, exploration_id) THEN ServerError
    ELSE IF old_state_name \notin DOMAIN st[exploration_id].states
    THEN ServerError
    ELSE
      LET exploration == st[exploration_id]
          old_state == exploration.states[old_state_name]
          answer == payload.answer
          handler == payload.handler
          block_number == NextBlockNumber(payload.block_number)
          old_params == WithAnswer(payload.params, answer)
          rule == classify(st, exploration_id, old_state_name, handler,
                           answer, old_params)
          feedback == rule.feedback
          new_state_name == rule.dest
      IN
      IF new_state_name # END_DEST
            /\ new_state_name \notin DOMAIN exploration.states
      THEN ServerError
      ELSE
        LET hit == record_state_hit(
                exploration_id, new_state_name,
                IsFirstVisit(payload.state_history, new_state_name))
            state_history == AppendHistory(payload.state_history, new_state_name)
            sticky == Sticky(exploration, old_state, new_state_name)
            answered == record_answer_submitted(
                exploration_id, old_state_name, handler, rule.desc,
                get_stats_log_html(old_state.widget, old_params, answer))
            reader_response == get_reader_response_html(
                old_state.widget, old_params, answer)
            feedback_html == get_feedback(feedback, old_params)
            finished == (new_state_name = END_DEST)
            state_has_changed == (old_state_name # new_state_name)
            out == append_content(
                st, exploration_id, sticky, finished, old_params,
                new_state_name, state_has_changed, feedback_html)
        IN [status |-> 200,
            values |-> [reader_response_html |-> reader_response.html,
                        reader_response_iframe |-> reader_response.iframe,
                        interactive_html |-> out.interactive_html,
                        exploration_id |-> exploration_id,
                        state_name |-> ReturnedStateName(
                            old_state_name, new_state_name),
                        oppia_html |-> out.html_output,
                        block_number |-> block_number,
                        params |-> out.new_params,
                        finished |-> finished,
                        state_history |-> state_history],
            events |-> <<hit, answered>>]

-----------------------------------------------------------------------------
(* ReaderFeedbackHandler.post *)

ReaderFeedbackHandler_post(exploration_id, state_name, payload) ==
    [status |-> 200,
     values |-> <<>>,
     events |-> <<record_state_feedback_from_reader(
         exploration_id, state_name, payload.feedback, payload.state_history)>>]

-----------------------------------------------------------------------------
(* The editor prerequisites form: POST on EDITOR_PREREQUISITES_DATA_URL.   *)
(* A username is a sequence of characters.                                 *)

AlnumChars == {"a", "b", "c", "d", "e", "7"}

AgreedValues == {"true", "false", "Hasta la vista!", "missing"}

\* The usernames a payload may carry: '', '!a!', and two valid ones.
UsernameInputs == {<<>>, <<"!", "a", "!">>, <<"a", "b">>, <<"c", "7">>}

SignedIn == UserIds \ {"anonymous"}

InvalidInput(message) ==
    [status |-> 400, values |-> [code |-> 400, error |-> message],
     events |-> <<>>]

\* agreed_to_terms is the boolean true.
AcceptsTerms(agreed_to_terms) == agreed_to_terms = "true"

IsAlnum(username) ==
    \A i \in 1..Len(username) : username[i] \in AlnumChars

\* The form validated for a registered editor as for anyone else.
HasUsername_never(names, user_id) == FALSE

\* The signed-in user registered a username before.
HasUsername(names, user_id) == names[user_id] # <<>>

\* payload: [agreed_to_terms, username_given, username]
EditorPrerequisitesHandler_post(names, user_id, payload) ==
    IF ~AcceptsTerms(payload.agreed_to_terms)
    THEN InvalidInput(<<"In order to edit", "you will need to accept",
                        "the license terms.">>)
    ELSE IF HasUsername(names, user_id)
    THEN [status |-> 200, values |-> <<>>, events |-> <<>>]
    ELSE IF ~payload.username_given \/ payload.username = <<>>
    THEN InvalidInput(<<"Empty username supplied">>)
    ELSE IF ~IsAlnum(payload.username)
    THEN InvalidInput(<<"Usernames", "can only have alphanumeric characters">>)
    ELSE [status |-> 200, values |-> <<>>, events |-> <<>>]

\* user_services.set_username, reached only by a submission that passed.
UsernamesAfter(names, user_id, payload) ==
    IF /\ AcceptsTerms(payload.agreed_to_terms)
       /\ ~HasUsername(names, user_id)
       /\ EditorPrerequisitesHandler_post(names, user_id, payload).status = 200
    THEN [names EXCEPT ![user_id] = payload.username]
    ELSE names

-----------------------------------------------------------------------------
(* The initial states. *)

BaseStore ==
    ("0" :> Welcome) @@
    ("eid" :> NewExploration("editor", TRUE)) @@
    ("eid2" :> NewExploration("another", FALSE))

NoRequest == [handler |-> "none", request |-> <<>>, status |-> 0, values |-> <<>>]

NoSession ==
    [started |-> FALSE, exploration_id |-> "", state_name |-> "",
     block_number |-> 0, params |-> EmptyParams, state_history |-> <<>>]

NoResponse ==
    [handler |-> "none", status |-> 0, values |-> <<>>, events |-> <<>>]

Init ==
    /\ \E demo \in {"absent", "demo", "edited"} :
         store = CASE demo = "absent" -> BaseStore
                   [] demo = "demo" -> BaseStore @@ ("1" :> Demo1)
                   [] demo = "edited" -> BaseStore @@ ("1" :> Edited1)
    /\ \E eid_published \in BOOLEAN :
         public = ({"0", "1"} \cap DOMAIN store)
                     \cup (IF eid_published THEN {"eid"} ELSE {})
    /\ usernames = [u \in SignedIn |-> <<>>]
    /\ last = NoRequest
    /\ events = <<>>
    /\ client = [r \in Readers |-> NoSession]
    /\ resp = [r \in Readers |-> NoResponse]
    /\ alone = [r \in Readers |-> [store |-> store, public |-> public]]
    /\ expected = [r \in Readers |-> NoResponse]
    /\ few_public_redirect = FALSE
    /\ session_log = [r \in Readers |-> [finished |-> 0, after_end |-> FALSE]]

session_vars == <<client, resp, alone, expected, few_public_redirect,
                  session_log>>

-----------------------------------------------------------------------------
(* Requests, each served whole and one at a time.  The payload is whatever *)
(* the client sends.                                                       *)

Idle == last.handler = "none"

SeqsUpTo(S, n) == UNION {[1..k -> S] : k \in 0..n}

Histories == SeqsUpTo(StateNames \cup {END_DEST}, MaxHist)

ParamInputs == {EmptyParams, [name |-> "n9", answer |-> "stale"]}

Served(handler, request, response) ==
    /\ Idle
    /\ last' = [handler |-> handler, request |-> request,
                status |-> response.status, values |-> response.values]
    /\ events' = response.events

PageGet ==
    /\ Idle
    /\ \E user_id \in UserIds, exploration_id \in ExpIds, iframed \in BOOLEAN :
        /\ Served("page",
                  [user_id |-> user_id, exploration_id |-> exploration_id,
                   iframed |-> iframed],
                  ExplorationPage_get(store, public, user_id, exploration_id,
                                      iframed))
        /\ UNCHANGED <<store, public, usernames, session_vars>>

RandomGet ==
    /\ Idle
    /\ \E iframed \in BOOLEAN, selected \in RandomSelection(public) :
        /\ Served("random", [iframed |-> iframed],
                  RandomExplorationPage_get(selected, iframed))
        /\ store' = RandomStore(store, public)
        /\ public' = RandomPublic(store, public)
        /\ UNCHANGED <<usernames, session_vars>>

InitGet ==
    /\ Idle
    /\ \E user_id \in UserIds, exploration_id \in ExpIds :
        /\ Served("init",
                  [user_id |-> user_id, exploration_id |-> exploration_id],
                  ExplorationHandler_get(store, exploration_id))
        /\ UNCHANGED <<store, public, usernames, session_vars>>

TransitionPost ==
    /\ Idle
    /\ \E exploration_id \in ExpIds, state_name \in StateNames \cup {END_DEST},
       answer \in Answers, block_number \in 0..MaxBlock,
       params \in ParamInputs, state_history \in Histories :
        LET payload == [answer |-> answer, handler |-> "submit",
                        block_number |-> block_number, params |-> params,
                        state_history |-> state_history]
        IN /\ Served("transition",
                     [exploration_id |-> exploration_id,
                      state_name |-> state_name, payload |-> payload],
                     FeedbackHandler_post(store, exploration_id, state_name,
                                          payload))
           /\ UNCHANGED <<store, public, usernames, session_vars>>

ReaderFeedbackPost ==
    /\ Idle
    /\ \E exploration_id \in ExpIds, state_name \in StateNames,
       state_history \in Histories :
        LET payload == [feedback |-> <<"unclear">>,
                        state_history |-> state_history]
        IN /\ Served("feedback",
                     [exploration_id |-> exploration_id,
                      state_name |-> state_name, payload |-> payload],
                     ReaderFeedbackHandler_post(exploration_id, state_name,
                                                payload))
           /\ UNCHANGED <<store, public, usernames, session_vars>>

\* render_json / render_template / redirect: the response leaves the server.
Deliver ==
    /\ ~Idle
    /\ last' = NoRequest
    /\ events' = <<>>
    /\ UNCHANGED <<store, public, usernames, session_vars>>

Next ==
    \/ PageGet
    \/ RandomGet
    \/ InitGet
    \/ TransitionPost
    \/ ReaderFeedbackPost
    \/ Deliver

Spec == Init /\ [][Next]_vars

-----------------------------------------------------------------------------
(* The prerequisites form on its own. *)

PrerequisitesPost ==
    /\ Idle
    /\ \E user_id \in SignedIn, agreed_to_terms \in AgreedValues,
       username_given \in BOOLEAN, username \in UsernameInputs :
        LET payload == [agreed_to_terms |-> agreed_to_terms,
                        username_given |-> username_given,
                        username |-> IF username_given THEN username ELSE <<>>]
        IN /\ Served("prerequisites",
                     [user_id |-> user_id, payload |-> payload,
                      registered |-> usernames[user_id] # <<>>],
                     EditorPrerequisitesHandler_post(usernames, user_id, payload))
           /\ usernames' = UsernamesAfter(usernames, user_id, payload)
           /\ UNCHANGED <<store, public, session_vars>>

NextProfile ==
    \/ PrerequisitesPost
    \/ Deliver

SpecProfile == Init /\ [][NextProfile]_vars

-----------------------------------------------------------------------------
(* Readers' sessions.  A client keeps what the last response gave it and    *)
(* echoes it back (reader_test.py, _submit_answer and init_player); the     *)
(* requests of the readers interleave in any order.                        *)

Response(handler, response) ==
    [handler |-> handler, status |-> response.status,
     values |-> response.values, events |-> response.events]

\* What the client keeps of a response that carries a session.
SessionOf(exploration_id, values) ==
    [started |-> TRUE, exploration_id |-> exploration_id,
     state_name |-> values.state_name,
     block_number |-> values.block_number,
     params |-> values.params,
     state_history |-> values.state_history]

\* The payload of _submit_answer.
EchoPayload(session, answer) ==
    [answer |-> answer, handler |-> "submit",
     block_number |-> session.block_number,
     params |-> session.params,
     state_history |-> session.state_history]

\* The explorations the readers of the model go through.
ReaderExpIds == {"0", "1"}

ReaderInit(r) ==
    \E exploration_id \in ReaderExpIds :
        LET response == ExplorationHandler_get(store, exploration_id) IN
        /\ resp' = [resp EXCEPT ![r] = Response("init", response)]
        /\ expected' = [expected EXCEPT ![r] = Response("init",
               ExplorationHandler_get(alone[r].store, exploration_id))]
        /\ client' = [client EXCEPT ![r] =
               IF response.status = 200
               THEN SessionOf(exploration_id, response.values) ELSE @]
        /\ session_log' = [session_log EXCEPT ![r].finished =
               IF response.status = 200 THEN 0 ELSE @]
        /\ UNCHANGED <<store, public, usernames, last, events, alone,
                       few_public_redirect>>

ReaderSubmit(r) ==
    /\ client[r].started
    /\ client[r].block_number < MaxBlock
    /\ \E answer \in Answers :
        LET session == client[r]
            payload == EchoPayload(session, answer)
            response == FeedbackHandler_post(
                store, session.exploration_id, session.state_name, payload)
        IN
        /\ resp' = [resp EXCEPT ![r] = Response("transition", response)]
        /\ expected' = [expected EXCEPT ![r] = Response("transition",
               FeedbackHandler_post(alone[r].store, session.exploration_id,
                                    session.state_name, payload))]
        /\ client' = [client EXCEPT ![r] =
               IF response.status = 200
               THEN SessionOf(session.exploration_id, response.values) ELSE @]
        /\ session_log' = [session_log EXCEPT ![r] =
               [finished |-> IF response.status = 200 /\ response.values.finished
                             THEN @.finished + 1 ELSE @.finished,
                after_end |-> \/ @.after_end
                              \/ /\ session.state_name = END_DEST
                                 /\ \/ response.status = 200
                                    \/ response.events # <<>>]]
        /\ UNCHANGED <<store, public, usernames, last, events, alone,
                       few_public_redirect>>

ReaderFeedback(r) ==
    /\ client[r].started
    /\ client[r].state_name # END_DEST
    /\ LET session == client[r]
           response == ReaderFeedbackHandler_post(
               session.exploration_id, session.state_name,
               [feedback |-> <<"unclear">>,
                state_history |-> session.state_history])
       IN resp' = [resp EXCEPT ![r] = Response("feedback", response)]
    /\ UNCHANGED <<store, public, usernames, last, events, client, alone,
                   expected, few_public_redirect, session_log>>

ReaderRandom(r) ==
    \E selected \in RandomSelection(public) :
        /\ resp' = [resp EXCEPT ![r] = Response("random",
               RandomExplorationPage_get(selected, FALSE))]
        /\ store' = RandomStore(store, public)
        /\ public' = RandomPublic(store, public)
        /\ alone' = [alone EXCEPT ![r] =
               [store |-> RandomStore(alone[r].store, alone[r].public),
                public |-> RandomPublic(alone[r].store, alone[r].public)]]
        /\ few_public_redirect' =
               (few_public_redirect \/ Len(get_public_explorations(public)) <= 1)
        /\ UNCHANGED <<usernames, last, events, client, expected, session_log>>

NextSession ==
    \E r \in Readers :
        \/ ReaderInit(r)
        \/ ReaderSubmit(r)
        \/ ReaderFeedback(r)
        \/ ReaderRandom(r)

SpecSession == Init /\ [][NextSession]_vars

-----------------------------------------------------------------------------
(* Properties of one transition request, stated on the request being       *)
(* served and the response it gets.                                        *)

Transitioned == last.handler = "transition" /\ last.status = 200

SentPayload == last.request.payload

OriginState ==
    store[last.request.exploration_id].states[last.request.state_name]

\* The rule the answer is classified to.
SentRule ==
    classify(store, last.request.exploration_id, last.request.state_name,
             SentPayload.handler, SentPayload.answer, SentPayload.params)

DestState == store[last.request.exploration_id].states[SentRule.dest]

Occurs(x, seq) == \E i \in 1..Len(seq) : seq[i] = x

\* The feedback HTML of the transition: the rule's feedback rendered with
\* the reader's parameters, the answer among them.
FeedbackHtml ==
    get_feedback(SentRule.feedback,
                 Merge(SentPayload.params, [answer |-> SentPayload.answer]))

\* C1: the state_history of a transition response is the state_history sent
\* with the destination state name (the end sentinel included) appended:
\* one element longer, the earlier elements unchanged and in order, the
\* destination last, also when the destination occurs in the history sent.
C1_HistoryAppended ==
    Transitioned =>
        LET sent == SentPayload.state_history
            got == last.values.state_history
        IN /\ Len(got) = Len(sent) + 1
           /\ \A i \in 1..Len(sent) : got[i] = sent[i]
           /\ got[Len(got)] = SentRule.dest

\* A transition to the end sentinel whose history sent already holds it.
C1_Witness ==
    /\ Transitioned
    /\ SentRule.dest = END_DEST
    /\ Occurs(END_DEST, SentPayload.state_history)
    /\ Len(SentPayload.state_history) = 2
    /\ last.values.state_history[3] = END_DEST

\* C2: the block_number of a transition response is the block_number sent
\* plus 1, whatever the destination, so it is greater than the one sent.
C2_BlockNumberPlusOne ==
    Transitioned =>
        /\ last.values.block_number = SentPayload.block_number + 1
        /\ last.values.block_number > SentPayload.block_number

\* A transition that stays in its state and still moves the block number.
C2_Witness ==
    /\ Transitioned
    /\ SentRule.dest = last.request.state_name
    /\ SentPayload.block_number = 1
    /\ last.values.block_number = 2

\* C6: finished is true exactly when the rule's destination is the end
\* sentinel, and then interactive_html is empty, oppia_html is the feedback
\* HTML alone and params is the empty mapping.
C6_Finished ==
    Transitioned =>
        /\ last.values.finished <=> (SentRule.dest = END_DEST)
        /\ last.values.finished =>
              /\ last.values.interactive_html = <<>>
              /\ last.values.oppia_html = FeedbackHtml
              /\ DOMAIN last.values.params = {}

\* A finished transition with feedback, sent with parameters.
C6_Witness ==
    /\ Transitioned
    /\ last.values.finished
    /\ DOMAIN SentPayload.params # {}
    /\ last.values.oppia_html = <<"bye">>

\* Sticky as the claim states it.
ClaimedSticky ==
    /\ SentRule.dest # END_DEST
    /\ DestState.widget.sticky
    /\ DestState.widget.widget_id = OriginState.widget.widget_id

StateHits == {i \in 1..Len(events) : events[i].type = "state_hit"}

\* C8: a successful transition records exactly one state-hit event, for the
\* exploration and the destination state name (the end sentinel included),
\* flagged as a first visit if and only if the destination does not occur in
\* the state_history as sent.
C8_StateHit ==
    Transitioned =>
        /\ Cardinality(StateHits) = 1
        /\ \A i \in StateHits :
              /\ events[i].exploration_id = last.request.exploration_id
              /\ events[i].state_name = SentRule.dest
              /\ events[i].first_time
                    <=> ~Occurs(SentRule.dest, SentPayload.state_history)

\* A first visit of the end sentinel, recorded as one.
C8_Witness ==
    /\ Transitioned
    /\ SentRule.dest = END_DEST
    /\ ~Occurs(END_DEST, SentPayload.state_history)
    /\ \E i \in StateHits : events[i].first_time

\* The destination state's content HTML, rendered with the new parameters.
DestContentHtml == export_content_to_html(DestState.content, last.values.params)

\* C9: in a response that is not finished, oppia_html is the feedback HTML
\* alone when the destination is the origin state; otherwise it is the
\* feedback HTML followed by the destination state's content HTML, with
\* '<br>' between them if and only if both are non-empty.
C9_OppiaHtml ==
    (Transitioned /\ ~last.values.finished) =>
        IF SentRule.dest = last.request.state_name
        THEN last.values.oppia_html = FeedbackHtml
        ELSE last.values.oppia_html =
                FeedbackHtml
                  \o (IF FeedbackHtml # <<>> /\ DestContentHtml # <<>>
                      THEN <<BR>> ELSE <<>>)
                  \o DestContentHtml

\* Feedback and content both there, with the separator between them.
C9_Witness ==
    /\ Transitioned
    /\ ~last.values.finished
    /\ SentRule.dest # last.request.state_name
    /\ FeedbackHtml # <<>>
    /\ DestContentHtml # <<>>
    /\ last.values.oppia_html = <<"good", BR, "more", "a1">>

-----------------------------------------------------------------------------
(* Who may read an unpublished exploration. *)

PageServed == last.handler = "page"

Unpublished(exploration_id) ==
    exploration_id \in DOMAIN store /\ exploration_id \notin public

\* The user edits some exploration of the store.
EditsSome(user_id) == \E e \in DOMAIN store : user_id \in store[e].editors

\* C3: for an unpublished exploration, GET /learn/<id> returns 404 to an
\* anonymous requester, to a logged-in user unrelated to the exploration and
\* to an editor of a different exploration, and 200 to the exploration's
\* owning editor and to an admin.
C3_UnpublishedPage ==
    (PageServed /\ Unpublished(last.request.exploration_id)) =>
        LET user_id == last.request.user_id
            owners == store[last.request.exploration_id].editors
        IN /\ user_id = "anonymous" => last.status = 404
           /\ (user_id \notin owners /\ user_id \notin Admins) =>
                 last.status = 404
           /\ (EditsSome(user_id) /\ user_id \notin owners
                  /\ user_id \notin Admins) => last.status = 404
           /\ user_id \in owners => last.status = 200
           /\ user_id \in Admins => last.status = 200

\* The editor of another exploration is refused the unpublished "eid".
C3_Witness ==
    /\ PageServed
    /\ last.request.exploration_id = "eid"
    /\ Unpublished("eid")
    /\ last.request.user_id = "another"
    /\ EditsSome("another")
    /\ last.status = 404

InitServed == last.handler = "init"

\* C4: the init handler fails with NotFound whenever the exploration id does
\* not resolve or the requester lacks view permission, and returns the
\* initial reader data only to a requester who can view the exploration.
C4_InitNeedsViewPermission ==
    InitServed =>
        LET exploration_id == last.request.exploration_id
            user_id == last.request.user_id
        IN /\ ~Resolves(store, exploration_id) => last.status = 404
           /\ (Resolves(store, exploration_id)
                 /\ ~can_view(store, public, user_id, exploration_id))
                 => last.status = 404
           /\ last.status = 200 =>
                 can_view(store, public, user_id, exploration_id)

-----------------------------------------------------------------------------
(* The prerequisites form. *)

FormServed == last.handler = "prerequisites"

HasError(message) ==
    /\ last.status = 400
    /\ last.values.code = 400
    /\ Occurs(message, last.values.error)

NonAlnum(username) ==
    \E i \in 1..Len(username) : username[i] \notin AlnumChars

\* What the form answers to a submission with agreed_to_terms true.
UsernameValidated ==
    LET payload == last.request.payload IN
    /\ (~payload.username_given \/ payload.username = <<>>)
          => HasError("Empty username supplied")
    /\ (payload.username_given /\ NonAlnum(payload.username))
          => HasError("can only have alphanumeric characters")
    /\ (payload.username_given /\ payload.username # <<>>
           /\ ~NonAlnum(payload.username)) => last.status = 200

\* C5 as stated: with agreed_to_terms true, a missing or empty username gets
\* 400 'Empty username supplied', a non-alphanumeric one 400 'can only have
\* alphanumeric characters', a valid one succeeds; for every signed-in user,
\* registered as an editor before or not.
C5_UsernameValidatedForAll ==
    (FormServed /\ last.request.payload.agreed_to_terms = "true") =>
        UsernameValidated

\* C5, amended: the above holds for every signed-in user who has not
\* registered a username; a user who has gets a success for a submission
\* with agreed_to_terms true and no username.
C5_UsernameValidatedUnlessRegistered ==
    (FormServed /\ last.request.payload.agreed_to_terms = "true") =>
        /\ ~last.request.registered => UsernameValidated
        /\ (last.request.registered /\ ~last.request.payload.username_given)
              => last.status = 200

\* A registered editor accepts the terms without a username and succeeds.
C5_Witness ==
    /\ FormServed
    /\ last.request.registered
    /\ last.request.payload.agreed_to_terms = "true"
    /\ ~last.request.payload.username_given
    /\ last.status = 200

-----------------------------------------------------------------------------
(* Readers side by side. *)

\* The reader's last request was an init or a transition.
Progressed(r) == resp[r].handler \in {"init", "transition"}

\* The response is the one the request gets when the reader is alone.
AsAlone(r) ==
    /\ resp[r].status = expected[r].status
    /\ resp[r].status = 200 =>
          /\ resp[r].values = expected[r].values
          /\ resp[r].events = expected[r].events

\* C10 as stated: under every interleaving of the readers' init,
\* transition, feedback and random-redirect requests, the outcome of a
\* reader's init or transition is the one it has when the reader's requests
\* run alone.
C10_ReadersDoNotInteract ==
    \A r \in Readers : Progressed(r) => AsAlone(r)

\* C10, amended: the same, as long as no random redirect was served while
\* fewer than two explorations were public (such a redirect deletes and
\* reloads exploration "1").
C10_ReadersDoNotInteractUnlessReset ==
    ~few_public_redirect =>
        \A r \in Readers : Progressed(r) => AsAlone(r)

\* One reader took the redirect, the other went on through exploration "1".
C10_Witness ==
    /\ ~few_public_redirect
    /\ resp["r1"].handler = "random"
    /\ resp["r2"].handler = "transition"
    /\ resp["r2"].status = 200
    /\ client["r2"].exploration_id = "1"
    /\ client["r2"].block_number = 2
    /\ AsAlone("r2")

-----------------------------------------------------------------------------
(* Transition requests that name no exploration or no state of it. *)

\* The request names an exploration or a state the store does not hold.
LookupFails ==
    \/ last.request.exploration_id \notin DOMAIN store
    \/ last.request.state_name
          \notin DOMAIN store[last.request.exploration_id].states

\* C11: a transition request whose exploration id does not resolve, or whose
\* state name is not a state of the exploration, ends as a generic server
\* error (not a 404), carries no transition response, and records no
\* state-hit and no answer-submitted event.
C11_LookupFailure ==
    (last.handler = "transition" /\ LookupFails) =>
        /\ last.status = 500
        /\ last.status # 404
        /\ DOMAIN last.values = {}
        /\ \A i \in 1..Len(events) :
              events[i].type \notin {"state_hit", "answer_submitted"}
        /\ events = <<>>

\* A transition posted for a state name the resolved exploration lacks.
C11_Witness ==
    /\ last.handler = "transition"
    /\ last.request.exploration_id = "0"
    /\ last.request.exploration_id \in DOMAIN store
    /\ last.request.state_name = END_DEST
    /\ LookupFails
    /\ last.status = 500
    /\ events = <<>>

-----------------------------------------------------------------------------
(* The end of a session. *)

\* The reader's last response is a transition response with finished true.
Finished(r) ==
    /\ resp[r].handler = "transition"
    /\ resp[r].status = 200
    /\ resp[r].values.finished

\* C12: a finished transition response returns the end sentinel as its
\* state_name, and no exploration has a state of that name; so no later
\* transition posted from it gets a response or records an event, and a
\* session that starts at init and echoes the responses has at most one
\* finished response, after which the client is left at the end sentinel.
C12_EndTerminates ==
    \A r \in Readers :
        /\ Finished(r) => resp[r].values.state_name = END_DEST
        /\ \A e \in DOMAIN store : END_DEST \notin DOMAIN store[e].states
        /\ ~session_log[r].after_end
        /\ session_log[r].finished <= 1
        /\ session_log[r].finished = 1 => client[r].state_name = END_DEST

\* A reader finished, posted again from the end sentinel and got the
\* server error with no event.
C12_Witness ==
    /\ session_log["r1"].finished = 1
    /\ client["r1"].state_name = END_DEST
    /\ resp["r1"].handler = "transition"
    /\ resp["r1"].status = 500
    /\ resp["r1"].events = <<>>
    /\ DOMAIN resp["r1"].values = {}

-----------------------------------------------------------------------------
(* The session an echoing client carries. *)

\* The reader's last response carries a session: an init or a transition
\* that succeeded.
CarriesSession(r) ==
    /\ resp[r].handler \in {"init", "transition"}
    /\ resp[r].status = 200

\* The history is one longer than the block number and ends in the state.
Aligned(block_number, state_history, state_name) ==
    /\ Len(state_history) = block_number + 1
    /\ state_history[Len(state_history)] = state_name

\* C13: in a session that starts with the init response (block_number 0,
\* state_history = [initial state name]) and in which the client echoes
\* block_number, state_history and state_name back unchanged, after every
\* response the length of state_history is block_number + 1 and its last
\* element is the returned state_name.
C13_HistoryTracksBlocks ==
    \A r \in Readers :
        /\ CarriesSession(r) =>
              Aligned(resp[r].values.block_number,
                      resp[r].values.state_history,
                      resp[r].values.state_name)
        /\ (resp[r].handler = "init" /\ resp[r].status = 200) =>
              /\ resp[r].values.block_number = 0
              /\ resp[r].values.state_history = <<resp[r].values.state_name>>
        /\ client[r].started =>
              Aligned(client[r].block_number, client[r].state_history,
                      client[r].state_name)

\* Two transitions into a session, the first of which stayed in its state.
C13_Witness ==
    /\ resp["r1"].handler = "transition"
    /\ resp["r1"].status = 200
    /\ resp["r1"].values.block_number = 2
    /\ resp["r1"].values.state_history = <<"Intro", "Intro", "Quiz">>
    /\ resp["r1"].values.state_name = "Quiz"
    /\ client["r1"].state_history = <<"Intro", "Intro", "Quiz">>

====
